---- MODULE Spec2Model ----
(***************************************************************************)
(* State-machine model of the session orchestration core of the visit      *)
(* report assistant: VoiceAssistant.interact, process_response_stream,     *)
(* handle_tool_calls and record_until_silence (src/assistant_class.py),    *)
(* with the tool handlers of src/tools.py and the script of the chat UI    *)
(* that calls interact (src/app.py).                                       *)
(*                                                                         *)
(* Texts are sequences of tokens (a token stands for a substring), so that *)
(* concatenation, trimming and parsing are computed, not assumed.          *)
(***************************************************************************)
EXTENDS Naturals, Sequences, FiniteSets, TLC

\* ------------------------------------------------------------------ bounds
\* Events other than response.done that the model connection emits in one
\* behaviour of Spec.
MaxEvents == 2
\* The same for SpecStream, which follows a single interact call.
MaxStreamEvents == 4
\* Events other than response.done that the model emits after the first
\* batch in SpecFollowUp.
MaxFollowUpEvents == 3
\* interact calls issued by the caller in one behaviour.
MaxInteracts == 2
\* Calls in a batch handed to handle_tool_calls in SpecDispatch.
MaxBatch == 2
\* Speech frames the audio source emits in SpecCapture.
MaxSpeechFrames == 5

\* ------------------------------------------------------- program constants
\* self.frame_duration, in milliseconds.
frame_duration == 30
\* self.silence_timeout is 1.5 seconds; the code multiplies it by 1000.
silence_timeout_ms == 1500

\* --------------------------------------------------------------- vocabulary
\* Tokens of the JSON texts the model streams as tool-call arguments.
T_OPEN == "{"
T_GMBH == "\"account_name\":\"igus GmbH\"}"
T_IGUS == "\"account_name\":\"IGUS\"}"
T_ACME == "\"account_name\":\"Acme\"}"
T_REPORT == "\"Account__c\":\"igus GmbH\",...}"

ArgTokens == {T_OPEN, T_GMBH, T_IGUS, T_ACME, T_REPORT}

\* The value of a Python local that has not been assigned yet.
Unbound == [kind |-> "unbound", value |-> <<>>]

RECURSIVE Flatten(_)
\* "".join(list_of_strings): the concatenation of the texts, in order.
Flatten(ss) == IF ss = <<>> THEN <<>> ELSE Head(ss) \o Flatten(Tail(ss))

\* json.loads(text): the keyword arguments the text denotes, or a
\* JSONDecodeError. Only a complete object parses: an opening brace followed
\* by one body; a lone brace, a body without brace, or trailing data do not.
JsonLoads(text) ==
    IF Len(text) = 2 /\ text[1] = T_OPEN /\ text[2] \in ArgTokens \ {T_OPEN}
    THEN CASE text[2] = T_GMBH -> [kind |-> "account_name", value |-> <<"igus", "GmbH">>]
           [] text[2] = T_IGUS -> [kind |-> "account_name", value |-> <<"IGUS">>]
           [] text[2] = T_ACME -> [kind |-> "account_name", value |-> <<"Acme">>]
           [] OTHER            -> [kind |-> "report", value |-> <<"igus", "GmbH">>]
    ELSE [kind |-> "JSONDecodeError", value |-> <<>>]

\* json.dumps(result): the serialized form of a handler's result.
JsonDumps(result) == [json |-> result]

\* str.lower() on one word.
LowerWord(w) ==
    CASE w = "IGUS" -> "igus"
      [] w = "GmbH" -> "gmbh"
      [] w = "North" -> "north"
      [] w = "America" -> "america"
      [] w = "Acme" -> "acme"
      [] OTHER -> w

Lower(s) == [i \in 1..Len(s) |-> LowerWord(s[i])]

\* Python's `a in b` on strings: a occurs in b as a contiguous run.
IsSubstring(a, b) ==
    \E k \in 0..Len(b) :
        /\ k + Len(a) <= Len(b)
        /\ \A i \in 1..Len(a) : b[k + i] = a[i]

\* str.strip(): leading and trailing whitespace removed.
RECURSIVE LStrip(_)
LStrip(s) == IF s # <<>> /\ Head(s) = " " THEN LStrip(Tail(s)) ELSE s
RECURSIVE RStrip(_)
RStrip(s) ==
    IF s # <<>> /\ s[Len(s)] = " " THEN RStrip(SubSeq(s, 1, Len(s) - 1)) ELSE s
Strip(s) == RStrip(LStrip(s))

\* The literal "tool_called" that process_response_stream returns.
TOOL_CALLED == <<"tool_called">>


\* ------------------------------------------------------------ tool handlers
\* The accounts the CRM lookup searches.
Accounts ==
    << [name |-> <<"igus", "GmbH">>, id |-> "A001"],
       [name |-> <<"igus", "North", "America">>, id |-> "A002"] >>

Matches(account_name, acc) == IsSubstring(Lower(account_name), Lower(acc.name))

\* find_account_by_name: case-insensitive substring match; one match is
\* single_found, several are multiple_found, none is not_found.
find_account_by_name(account_name) ==
    LET results == SelectSeq(Accounts, LAMBDA acc : Matches(account_name, acc))
    IN  IF Len(results) = 1
        THEN [status |-> "single_found", data |-> results]
        ELSE IF Len(results) > 1
             THEN [status |-> "multiple_found", data |-> results]
             ELSE [status |-> "not_found", data |-> <<>>]

\* list_contacts_for_account: contacts.get(account_name, []), an exact match
\* on the account's name.
list_contacts_for_account(account_name) ==
    [status |-> "contacts",
     data |-> IF account_name = <<"igus", "GmbH">>
              THEN << [name |-> "Max Mustermann"], [name |-> "Erika Beispiel"] >>
              ELSE IF account_name = <<"igus", "North", "America">>
                   THEN << [name |-> "John Doe"], [name |-> "Jane Smith"] >>
                   ELSE <<>>]

\* upload_visit_report: the CRM's create operation, an external collaborator;
\* it returns the created record (or raises, see InvokeTool).
upload_visit_report(report) == [status |-> "created", data |-> <<report>>]

\* self.TOOL_MAP: tool name -> the keyword the handler takes.
TOOL_MAP ==
    [find_account_by_name |-> "account_name",
     list_contacts_for_account |-> "account_name",
     upload_visit_report |-> "report"]

ToolNames == DOMAIN TOOL_MAP

\* TOOLS: the names of the functions of the tool schema that connect() sends
\* to the model with session.update.
TOOLS == {"find_account_by_name", "list_contacts_for_account", "prepare_for_upload"}

\* The handler's return value for arguments it accepts.
HandlerResult(name, arguments) ==
    CASE name = "find_account_by_name" -> find_account_by_name(arguments.value)
      [] name = "list_contacts_for_account" -> list_contacts_for_account(arguments.value)
      [] OTHER -> upload_visit_report(arguments.value)

\* InvokeTool with one retry of a handler that raised: the CRM is invoked a
\* second time with the same arguments.
InvokeToolRetries(name, arguments, crm_ok) ==
    IF name \notin ToolNames
    THEN [raised |-> TRUE, exc |-> "KeyError", crm |-> <<>>,
          result |-> [status |-> "none", data |-> <<>>]]
    ELSE IF arguments.kind # TOOL_MAP[name]
    THEN [raised |-> TRUE, exc |-> "TypeError", crm |-> <<>>,
          result |-> [status |-> "none", data |-> <<>>]]
    ELSE IF ~crm_ok
    THEN [raised |-> TRUE, exc |-> "CRMError",
          crm |-> << [name |-> name, arguments |-> arguments,
                      result |-> [status |-> "raised", data |-> <<>>]],
                     [name |-> name, arguments |-> arguments,
                      result |-> [status |-> "raised", data |-> <<>>]] >>,
          result |-> [status |-> "none", data |-> <<>>]]
    ELSE [raised |-> FALSE, exc |-> "",
          crm |-> << [name |-> name, arguments |-> arguments,
                      result |-> HandlerResult(name, arguments)] >>,
          result |-> HandlerResult(name, arguments)]

\* tool_func = self.TOOL_MAP[name]; result = tool_func(**arguments).
\* KeyError for a name TOOL_MAP lacks, TypeError when the arguments do not
\* bind to the handler's parameters (the CRM is not reached in either case);
\* otherwise the CRM is invoked once, and crm_ok says whether it answers or
\* raises.
InvokeTool(name, arguments, crm_ok) ==
    IF name \notin ToolNames
    THEN [raised |-> TRUE, exc |-> "KeyError", crm |-> <<>>,
          result |-> [status |-> "none", data |-> <<>>]]
    ELSE IF arguments.kind # TOOL_MAP[name]
    THEN [raised |-> TRUE, exc |-> "TypeError", crm |-> <<>>,
          result |-> [status |-> "none", data |-> <<>>]]
    ELSE IF ~crm_ok
    THEN [raised |-> TRUE, exc |-> "CRMError",
          crm |-> << [name |-> name, arguments |-> arguments,
                      result |-> [status |-> "raised", data |-> <<>>]] >>,
          result |-> [status |-> "none", data |-> <<>>]]
    ELSE [raised |-> FALSE, exc |-> "",
          crm |-> << [name |-> name, arguments |-> arguments,
                      result |-> HandlerResult(name, arguments)] >>,
          result |-> HandlerResult(name, arguments)]

\* -------------------------------------------------------------------- state
VARIABLES
    tool_callback,       \* self.tool_callback is installed
    conversation,        \* items created with connection.conversation.item.create
    gen_triggers,        \* number of connection.response.create() calls
    dones_consumed,      \* response.done events read from the connection
    crm_calls,           \* invocations of the CRM collaborator, in order
    callback_calls,      \* notifications of the tool_callback observer
    played,              \* clips handed to play_audio_buffered
    recorded,            \* calls of record_until_silence made by interact
    pc,                  \* where the interact call stands
    outcome,             \* how the last interact call ended
    content_sent,        \* what the caller supplied to the current interact
    audio_chunks,        \* process_response_stream: audio_chunks
    final_text,          \* process_response_stream: final_text
    pending_tool_calls,  \* process_response_stream: pending_tool_calls
    drain_events,        \* events the current drain has read, in order
    tool_calls,          \* handle_tool_calls: tool_calls
    idx,                 \* handle_tool_calls: position of the for loop
    arguments,           \* handle_tool_calls: the local `arguments`
    result,              \* interact: result
    budget,              \* non-terminal events the model may still emit
    calls,               \* interact calls issued so far
    frames_read,         \* frames record_until_silence has read from the stream
    audio_frames,        \* record_until_silence: audio_frames
    silence_counter,     \* record_until_silence: silence_counter
    speech_seen,         \* speech frames the source has emitted
    lead_speech,         \* speech frames before the first silence frame
    last_speech_at,      \* position of the last speech frame read, 0 if none
    cap_pc,              \* record_until_silence: in the loop or returned
    messages,            \* app.py: st.session_state.state.messages, per UI session
    ui,                  \* app.py: where the script run of each UI session stands
    ui_args,             \* app.py: the mode and content the script passes to interact
    owner,               \* the UI session whose interact call the locals above belong to
    suspended            \* an interact call parked on the event loop while another runs

connVars == <<conversation, gen_triggers, dones_consumed>>
sideVars == <<crm_calls, callback_calls, played, recorded>>
streamVars == <<audio_chunks, final_text, pending_tool_calls, drain_events>>
dispatchVars == <<tool_calls, idx, arguments>>
captureVars == <<frames_read, audio_frames, silence_counter, speech_seen, lead_speech,
                 last_speech_at, cap_pc>>
uiVars == <<messages, ui, ui_args, owner, suspended>>
vars == <<tool_callback, connVars, sideVars, pc, outcome, content_sent, streamVars,
          dispatchVars, result, budget, calls, captureVars, uiVars>>

\* Responses the connection has been asked for and that are not yet read to
\* their response.done.
Outstanding == gen_triggers - dones_consumed

NoOutcome == [kind |-> "none", exc |-> "", value |-> <<>>]
Raised(exc) == [kind |-> "raised", exc |-> exc, value |-> <<>>]
Returned(text) == [kind |-> "returned", exc |-> "", value |-> text]

CaptureIdle ==
    /\ frames_read = 0
    /\ audio_frames = <<>>
    /\ silence_counter = 0
    /\ speech_seen = 0
    /\ lead_speech = 0
    /\ last_speech_at = 0
    /\ cap_pc = "idle"

\* The UI sessions (browser tabs) served by the one Streamlit process.
Sessions == {"s1", "s2"}

\* No interact call: the locals of a coroutine that has not started.
NoCoroutine ==
    [owner |-> "none", pc |-> "idle", outcome |-> NoOutcome, content_sent |-> <<>>,
     audio_chunks |-> <<>>, final_text |-> Unbound, pending_tool_calls |-> <<>>,
     drain_events |-> <<>>, tool_calls |-> <<>>, idx |-> 1, arguments |-> Unbound,
     result |-> <<>>]

\* Every UI session has a new SessionState and no script run under way; no
\* interact call exists.
UiFresh ==
    /\ messages = [s \in Sessions |-> <<>>]
    /\ ui = [s \in Sessions |-> "idle"]
    /\ ui_args = [s \in Sessions |-> <<>>]
    /\ owner = "none"
    /\ suspended = NoCoroutine

\* A conversation item of type "message".
Message(role, content) ==
    [type |-> "message", role |-> role, call_id |-> "", payload |-> content]

\* A conversation item of type "function_call_output".
FunctionCallOutput(call_id, output) ==
    [type |-> "function_call_output", role |-> "", call_id |-> call_id,
     payload |-> output]

SystemPrompt == [type |-> "input_text", data |-> "system prompt"]

\* The session after __init__ and connect(): the system message is the only
\* conversation item, nothing is requested, no observer is installed.
Init ==
    /\ tool_callback = FALSE
    /\ conversation = << Message("system", SystemPrompt) >>
    /\ gen_triggers = 0
    /\ dones_consumed = 0
    /\ crm_calls = <<>>
    /\ callback_calls = <<>>
    /\ played = <<>>
    /\ recorded = 0
    /\ pc = "idle"
    /\ outcome = NoOutcome
    /\ content_sent = <<>>
    /\ audio_chunks = <<>>
    /\ final_text = Unbound
    /\ pending_tool_calls = <<>>
    /\ drain_events = <<>>
    /\ tool_calls = <<>>
    /\ idx = 1
    /\ arguments = Unbound
    /\ result = <<>>
    /\ budget = MaxEvents
    /\ calls = 0
    /\ CaptureIdle
    /\ UiFresh


\* ----------------------------------------------------------------- interact
\* What the callers pass to interact: app.py passes the typed prompt in text
\* mode and its own recording in voice mode; any other mode is invalid.
InteractInputs ==
    { <<"text", "hello">>, <<"voice", "ui_clip">>, <<"bogus_mode", "x">> }

\* The locals of a fresh process_response_stream call. final_text has no
\* initial assignment in the code.
FreshDrain ==
    /\ audio_chunks' = <<>>
    /\ pending_tool_calls' = <<>>
    /\ final_text' = Unbound
    /\ drain_events' = <<>>

\* Interact with the mode checked after the message is sent: the content of
\* an invalid mode is sent as it came, then ValueError is raised.
InteractValidatesLate(mode, content, rec_ok) ==
    /\ pc = "idle"
    /\ calls < MaxInteracts
    /\ calls' = calls + 1
    /\ content_sent' = <<mode, content>>
    /\ recorded' = IF mode = "voice" THEN recorded + 1 ELSE recorded
    /\ IF mode = "voice" /\ ~rec_ok
       THEN /\ outcome' = Raised("DeviceError")
            /\ UNCHANGED <<pc, connVars, streamVars>>
       ELSE /\ conversation' =
                Append(conversation,
                       Message("user",
                               IF mode = "voice"
                               THEN [type |-> "input_audio", data |-> "recorded_clip"]
                               ELSE [type |-> "input_text", data |-> content]))
            /\ gen_triggers' = gen_triggers + 1
            /\ IF mode \notin {"voice", "text"}
               THEN /\ outcome' = Raised("ValueError")
                    /\ UNCHANGED <<pc, streamVars>>
               ELSE /\ outcome' = NoOutcome
                    /\ pc' = "drain"
                    /\ FreshDrain
            /\ UNCHANGED dones_consumed
    /\ UNCHANGED <<tool_callback, crm_calls, callback_calls, played, dispatchVars, result,
                   budget, captureVars>>

\* Interact with the user message created before the recording is made: a
\* failed capture leaves an item without audio in the conversation.
InteractSendsBeforeCapture(mode, content, rec_ok) ==
    /\ pc = "idle"
    /\ calls < MaxInteracts
    /\ calls' = calls + 1
    /\ content_sent' = <<mode, content>>
    /\ recorded' = IF mode = "voice" THEN recorded + 1 ELSE recorded
    /\ IF mode \notin {"voice", "text"}
       THEN /\ outcome' = Raised("ValueError")
            /\ UNCHANGED <<pc, connVars, streamVars>>
       ELSE /\ conversation' =
                Append(conversation,
                       Message("user",
                               IF mode = "voice"
                               THEN [type |-> "input_audio",
                                     data |-> IF rec_ok THEN "recorded_clip" ELSE "none"]
                               ELSE [type |-> "input_text", data |-> content]))
            /\ IF mode = "voice" /\ ~rec_ok
               THEN /\ outcome' = Raised("DeviceError")
                    /\ UNCHANGED <<pc, gen_triggers, streamVars>>
               ELSE /\ gen_triggers' = gen_triggers + 1
                    /\ outcome' = NoOutcome
                    /\ pc' = "drain"
                    /\ FreshDrain
            /\ UNCHANGED dones_consumed
    /\ UNCHANGED <<tool_callback, crm_calls, callback_calls, played, dispatchVars, result,
                   budget, captureVars>>

\* Interact that sends, in voice mode, the audio passed by the caller.
InteractSendsCallerAudio(mode, content, rec_ok) ==
    /\ pc = "idle"
    /\ calls < MaxInteracts
    /\ calls' = calls + 1
    /\ content_sent' = <<mode, content>>
    /\ recorded' = recorded
    /\ IF mode \notin {"voice", "text"}
       THEN /\ outcome' = Raised("ValueError")
            /\ UNCHANGED <<pc, connVars, streamVars>>
       ELSE /\ conversation' =
                Append(conversation,
                       Message("user",
                               IF mode = "voice"
                               THEN [type |-> "input_audio", data |-> content]
                               ELSE [type |-> "input_text", data |-> content]))
            /\ gen_triggers' = gen_triggers + 1
            /\ outcome' = NoOutcome
            /\ pc' = "drain"
            /\ FreshDrain
            /\ UNCHANGED dones_consumed
    /\ UNCHANGED <<tool_callback, crm_calls, callback_calls, played, dispatchVars, result,
                   budget, captureVars>>

\* interact(mode, content) up to its first process_response_stream call:
\* build the content (recording in voice mode; rec_ok says whether the audio
\* device works), create the user message, request a response.
Interact(mode, content, rec_ok) ==
    /\ pc = "idle"
    /\ calls < MaxInteracts
    /\ calls' = calls + 1
    /\ content_sent' = <<mode, content>>
    /\ recorded' = IF mode = "voice" THEN recorded + 1 ELSE recorded
    /\ IF mode \notin {"voice", "text"}
       THEN /\ outcome' = Raised("ValueError")
            /\ UNCHANGED <<pc, connVars, streamVars>>
       ELSE IF mode = "voice" /\ ~rec_ok
       THEN /\ outcome' = Raised("DeviceError")
            /\ UNCHANGED <<pc, connVars, streamVars>>
       ELSE /\ conversation' =
                Append(conversation,
                       Message("user",
                               IF mode = "voice"
                               THEN [type |-> "input_audio", data |-> "recorded_clip"]
                               ELSE [type |-> "input_text", data |-> content]))
            /\ gen_triggers' = gen_triggers + 1
            /\ outcome' = NoOutcome
            /\ pc' = "drain"
            /\ FreshDrain
            /\ UNCHANGED dones_consumed
    /\ UNCHANGED <<tool_callback, crm_calls, callback_calls, played, dispatchVars, result,
                   budget, captureVars>>

\* InteractLoop without the response.create of its last line.
InteractLoopNoRetrigger ==
    /\ pc = "loop"
    /\ IF result # TOOL_CALLED
       THEN /\ outcome' = Returned(result)
            /\ pc' = "idle"
            /\ UNCHANGED <<connVars, streamVars>>
       ELSE /\ pc' = "drain"
            /\ FreshDrain
            /\ UNCHANGED <<connVars, outcome>>
    /\ UNCHANGED <<tool_callback, sideVars, content_sent, dispatchVars, result, budget,
                   calls, captureVars>>

\* The while loop of interact after process_response_stream has returned:
\* return the result unless it is "tool_called", else request a response and
\* drain again.
InteractLoop ==
    /\ pc = "loop"
    /\ IF result # TOOL_CALLED
       THEN /\ outcome' = Returned(result)
            /\ pc' = "idle"
            /\ UNCHANGED <<connVars, streamVars>>
       ELSE /\ gen_triggers' = gen_triggers + 1
            /\ pc' = "drain"
            /\ FreshDrain
            /\ UNCHANGED <<conversation, dones_consumed, outcome>>
    /\ UNCHANGED <<tool_callback, sideVars, content_sent, dispatchVars, result, budget,
                   calls, captureVars>>

\* --------------------------------------------------- process_response_stream
CallIds == {"c1", "c2"}
AudioDeltas == {"pcm1"}
Transcripts == { <<" ", "Hi", " ">>, <<"tool_called">> }
ArgDeltas == { <<T_OPEN>>, <<T_GMBH>>, <<T_OPEN, T_GMBH>> }
StreamNames == {"find_account_by_name", "upload_visit_report"}

Event(type, call_id, name, delta) ==
    [type |-> type, call_id |-> call_id, name |-> name, delta |-> delta]

\* The connection yields an event only for a response that was requested and
\* is not read to its end; the model emits at most MaxEvents events besides
\* response.done.
CanRead == pc = "drain" /\ Outstanding > 0
CanEmit == CanRead /\ budget > 0

Read(ev) ==
    /\ drain_events' = Append(drain_events, ev)
    /\ budget' = budget - 1
    /\ UNCHANGED <<tool_callback, connVars, sideVars, pc, outcome, content_sent,
                   dispatchVars, result, calls, captureVars>>

\* response.audio.delta: audio_chunks.append(event.delta).
AudioDelta(delta) ==
    /\ CanEmit
    /\ audio_chunks' = Append(audio_chunks, delta)
    /\ Read(Event("response.audio.delta", "", "", <<delta>>))
    /\ UNCHANGED <<final_text, pending_tool_calls>>

\* response.audio_transcript.done: final_text = event.transcript.strip().
TranscriptDone(transcript) ==
    /\ CanEmit
    /\ final_text' = [kind |-> "str", value |-> Strip(transcript)]
    /\ Read(Event("response.audio_transcript.done", "", "", transcript))
    /\ UNCHANGED <<audio_chunks, pending_tool_calls>>

\* Position of call_id in pending_tool_calls (a dict, in insertion order), 0
\* when it is not a key.
PendingIndex(pending, call_id) ==
    IF \E i \in 1..Len(pending) : pending[i].call_id = call_id
    THEN CHOOSE i \in 1..Len(pending) : pending[i].call_id = call_id
    ELSE 0

\* AddFragment with one argument list shared by the accumulators: the delta
\* goes to the accumulator created last.
AddFragmentShared(pending, call_id, delta) ==
    LET known == IF PendingIndex(pending, call_id) = 0
                 THEN Append(pending,
                             [call_id |-> call_id, arguments |-> <<>>, name |-> "None"])
                 ELSE pending
    IN  [known EXCEPT ![Len(known)].arguments = @ \o delta]

\* response.function_call_arguments.delta: create the accumulator on first
\* sight of the call_id, then extend its argument list with the delta.
AddFragment(pending, call_id, delta) ==
    LET known == IF PendingIndex(pending, call_id) = 0
                 THEN Append(pending,
                             [call_id |-> call_id, arguments |-> <<>>, name |-> "None"])
                 ELSE pending
        i == PendingIndex(known, call_id)
    IN  [known EXCEPT ![i].arguments = @ \o delta]

FunctionCallArgumentsDelta(call_id, delta) ==
    /\ CanEmit
    /\ pending_tool_calls' = AddFragment(pending_tool_calls, call_id, delta)
    /\ Read(Event("response.function_call_arguments.delta", call_id, "", delta))
    /\ UNCHANGED <<audio_chunks, final_text>>

\* response.function_call_arguments.done: set the name of a known call_id; a
\* call_id without accumulator is ignored.
SetName(pending, call_id, name) ==
    IF PendingIndex(pending, call_id) = 0
    THEN pending
    ELSE [pending EXCEPT ![PendingIndex(pending, call_id)].name = name]

FunctionCallArgumentsDone(call_id, name) ==
    /\ CanEmit
    /\ pending_tool_calls' = SetName(pending_tool_calls, call_id, name)
    /\ Read(Event("response.function_call_arguments.done", call_id, name, <<>>))
    /\ UNCHANGED <<audio_chunks, final_text>>

\* Finalize that goes through the accumulators from the newest to the oldest.
RECURSIVE FinalizeReversed(_)
FinalizeReversed(pending) ==
    IF pending = <<>>
    THEN <<>>
    ELSE FinalizeReversed(Tail(pending))
         \o (IF Head(pending).name # "None"
             THEN << [name |-> Head(pending).name,
                      call_id |-> Head(pending).call_id,
                      arguments |-> Head(pending).arguments] >>
             ELSE <<>>)

\* The tool_calls list built at response.done: the accumulators that have a
\* name, in dict order, each with its arguments joined.
RECURSIVE Finalize(_)
Finalize(pending) ==
    IF pending = <<>>
    THEN <<>>
    ELSE IF Head(pending).name # "None"
         THEN << [name |-> Head(pending).name,
                  call_id |-> Head(pending).call_id,
                  arguments |-> Head(pending).arguments] >> \o Finalize(Tail(pending))
         ELSE Finalize(Tail(pending))

\* response.done. With pending tool calls: hand the named ones to
\* handle_tool_calls, or, when none has a name, fall through and read on. With
\* none: read final_text (UnboundLocalError if no transcript was seen), play
\* the audio chunks if any, return final_text.
ResponseDone ==
    /\ CanRead
    /\ dones_consumed' = dones_consumed + 1
    /\ drain_events' = Append(drain_events, Event("response.done", "", "", <<>>))
    /\ IF pending_tool_calls # <<>>
       THEN IF Finalize(pending_tool_calls) # <<>>
            THEN /\ tool_calls' = Finalize(pending_tool_calls)
                 /\ idx' = 1
                 /\ arguments' = Unbound
                 /\ pc' = "dispatch"
                 /\ UNCHANGED <<outcome, played, result>>
            ELSE UNCHANGED <<dispatchVars, pc, outcome, played, result>>
       ELSE IF final_text = Unbound
            THEN /\ outcome' = Raised("UnboundLocalError: final_text")
                 /\ pc' = "idle"
                 /\ UNCHANGED <<dispatchVars, played, result>>
            ELSE /\ played' = IF audio_chunks # <<>>
                              THEN Append(played, audio_chunks)
                              ELSE played
                 /\ result' = final_text.value
                 /\ pc' = "loop"
                 /\ UNCHANGED <<dispatchVars, outcome>>
    /\ UNCHANGED <<tool_callback, conversation, gen_triggers, crm_calls, callback_calls,
                   recorded, content_sent, audio_chunks, final_text, pending_tool_calls,
                   budget, calls, captureVars>>


\* --------------------------------------------------------- handle_tool_calls
ErrorPayload(exc) == [status |-> "error", data |-> <<exc>>]

Notification(name, args, payload) ==
    [name |-> name, arguments |-> args, payload |-> payload]

\* One iteration of the for loop of handle_tool_calls, try and except
\* included. The try body parses the arguments, looks the handler up, calls
\* it, notifies the observer, creates the function_call_output item and
\* requests a response. The except body notifies the observer with the locals
\* `name` and `arguments` as they stand; `arguments` is unassigned when the
\* first parse of the batch failed, and reading it then raises out of
\* handle_tool_calls.
DispatchCall(crm_ok) ==
    /\ pc = "dispatch"
    /\ idx <= Len(tool_calls)
    /\ LET call == tool_calls[idx]
           parsed == JsonLoads(call.arguments)
           parse_failed == parsed.kind = "JSONDecodeError"
           inv == InvokeTool(call.name, parsed, crm_ok)
           args_now == IF parse_failed THEN arguments ELSE parsed
       IN  /\ arguments' = args_now
           /\ crm_calls' = IF parse_failed THEN crm_calls ELSE crm_calls \o inv.crm
           /\ IF ~parse_failed /\ ~inv.raised
              THEN /\ callback_calls' =
                        IF tool_callback
                        THEN Append(callback_calls,
                                    Notification(call.name, parsed, inv.result))
                        ELSE callback_calls
                   /\ conversation' =
                        Append(conversation,
                               FunctionCallOutput(call.call_id, JsonDumps(inv.result)))
                   /\ gen_triggers' = gen_triggers + 1
                   /\ idx' = idx + 1
                   /\ UNCHANGED <<pc, outcome>>
              ELSE IF tool_callback /\ args_now = Unbound
              THEN /\ outcome' = Raised("UnboundLocalError: arguments")
                   /\ pc' = "idle"
                   /\ UNCHANGED <<callback_calls, conversation, gen_triggers, idx>>
              ELSE /\ callback_calls' =
                        IF tool_callback
                        THEN Append(callback_calls,
                                    Notification(call.name, args_now,
                                        ErrorPayload(IF parse_failed
                                                     THEN "JSONDecodeError"
                                                     ELSE inv.exc)))
                        ELSE callback_calls
                   /\ idx' = idx + 1
                   /\ UNCHANGED <<conversation, gen_triggers, pc, outcome>>
    /\ UNCHANGED <<tool_callback, dones_consumed, played, recorded, content_sent,
                   streamVars, tool_calls, result, budget, calls, captureVars>>

\* The for loop is exhausted: handle_tool_calls returns and
\* process_response_stream returns "tool_called".
DispatchReturn ==
    /\ pc = "dispatch"
    /\ idx > Len(tool_calls)
    /\ result' = TOOL_CALLED
    /\ pc' = "loop"
    /\ UNCHANGED <<tool_callback, connVars, sideVars, outcome, content_sent, streamVars,
                   dispatchVars, budget, calls, captureVars>>

\* ------------------------------------------------------------ specifications
Next ==
    \/ \E inp \in InteractInputs, rec_ok \in BOOLEAN : Interact(inp[1], inp[2], rec_ok) /\ UNCHANGED uiVars
    \/ InteractLoop /\ UNCHANGED uiVars
    \/ \E d \in AudioDeltas : AudioDelta(d) /\ UNCHANGED uiVars
    \/ \E t \in Transcripts : TranscriptDone(t) /\ UNCHANGED uiVars
    \/ \E c \in CallIds, d \in ArgDeltas : FunctionCallArgumentsDelta(c, d) /\ UNCHANGED uiVars
    \/ \E c \in CallIds, n \in StreamNames : FunctionCallArgumentsDone(c, n) /\ UNCHANGED uiVars
    \/ ResponseDone /\ UNCHANGED uiVars
    \/ \E crm_ok \in BOOLEAN : DispatchCall(crm_ok) /\ UNCHANGED uiVars
    \/ DispatchReturn /\ UNCHANGED uiVars

Spec == Init /\ [][Next]_vars


\* The session inside its first interact call, made in text mode: the user
\* message is sent, one response is requested, process_response_stream starts
\* to read. No further interact call is made.
InitStream ==
    /\ tool_callback = FALSE
    /\ conversation = << Message("system", SystemPrompt),
                         Message("user", [type |-> "input_text", data |-> "hello"]) >>
    /\ gen_triggers = 1
    /\ dones_consumed = 0
    /\ crm_calls = <<>>
    /\ callback_calls = <<>>
    /\ played = <<>>
    /\ recorded = 0
    /\ pc = "drain"
    /\ outcome = NoOutcome
    /\ content_sent = <<"text", "hello">>
    /\ audio_chunks = <<>>
    /\ final_text = Unbound
    /\ pending_tool_calls = <<>>
    /\ drain_events = <<>>
    /\ tool_calls = <<>>
    /\ idx = 1
    /\ arguments = Unbound
    /\ result = <<>>
    /\ budget = MaxStreamEvents
    /\ calls = 1
    /\ CaptureIdle
    /\ UiFresh

NextStream ==
    \/ InteractLoop /\ UNCHANGED uiVars
    \/ \E d \in AudioDeltas : AudioDelta(d) /\ UNCHANGED uiVars
    \/ \E t \in Transcripts : TranscriptDone(t) /\ UNCHANGED uiVars
    \/ \E c \in CallIds, d \in ArgDeltas : FunctionCallArgumentsDelta(c, d) /\ UNCHANGED uiVars
    \/ \E c \in CallIds, n \in StreamNames : FunctionCallArgumentsDone(c, n) /\ UNCHANGED uiVars
    \/ ResponseDone /\ UNCHANGED uiVars
    \/ \E crm_ok \in BOOLEAN : DispatchCall(crm_ok) /\ UNCHANGED uiVars
    \/ DispatchReturn /\ UNCHANGED uiVars

SpecStream == InitStream /\ [][NextStream]_vars

\* SpecStream with the scheduling the code has: the coroutine is not preempted,
\* so a step of handle_tool_calls or of the interact loop that can be taken is
\* taken, and the model ends every response it was asked for with
\* response.done. Nothing obliges the model to send any other event.
SpecStreamFair ==
    /\ SpecStream
    /\ WF_vars(ResponseDone /\ UNCHANGED uiVars)
    /\ WF_vars(\E crm_ok \in BOOLEAN : DispatchCall(crm_ok) /\ UNCHANGED uiVars)
    /\ WF_vars(DispatchReturn /\ UNCHANGED uiVars)
    /\ WF_vars(InteractLoop /\ UNCHANGED uiVars)

\* A session that stands at the entry of handle_tool_calls: the user message
\* was sent, one response was requested and read to its response.done, and
\* the turn carried a batch of one to MaxBatch named calls. The batch is
\* arbitrary: the names and argument texts are whatever the model streamed.
CallIdOf(i) == IF i = 1 THEN "c1" ELSE IF i = 2 THEN "c2" ELSE IF i = 3 THEN "c3" ELSE "c4"

BatchNames == ToolNames \cup TOOLS \cup {"get_weather"}

BatchArguments ==
    { <<T_OPEN, T_GMBH>>, <<T_OPEN, T_IGUS>>, <<T_OPEN, T_ACME>>, <<T_OPEN, T_REPORT>>,
      <<T_OPEN>> }

Batches ==
    UNION { [1..n -> BatchNames \X BatchArguments] : n \in 1..MaxBatch }

\* The pending_tool_calls dict that finalizes to the batch.
PendingOf(batch) ==
    [i \in 1..Len(batch) |->
        [call_id |-> CallIdOf(i), arguments |-> batch[i][2], name |-> batch[i][1]]]

\* The events of the turn: per call its arguments and its name, then
\* response.done.
RECURSIVE EventsOf(_, _)
EventsOf(batch, i) ==
    IF i > Len(batch)
    THEN << Event("response.done", "", "", <<>>) >>
    ELSE << Event("response.function_call_arguments.delta", CallIdOf(i), "", batch[i][2]),
            Event("response.function_call_arguments.done", CallIdOf(i), batch[i][1], <<>>) >>
         \o EventsOf(batch, i + 1)

InitDispatch ==
    /\ tool_callback \in BOOLEAN
    /\ conversation = << Message("system", SystemPrompt),
                         Message("user", [type |-> "input_text", data |-> "hello"]) >>
    /\ gen_triggers = 1
    /\ dones_consumed = 1
    /\ crm_calls = <<>>
    /\ callback_calls = <<>>
    /\ played = <<>>
    /\ recorded = 0
    /\ pc = "dispatch"
    /\ outcome = NoOutcome
    /\ content_sent = <<"text", "hello">>
    /\ audio_chunks = <<>>
    /\ final_text = Unbound
    /\ \E batch \in Batches :
          /\ pending_tool_calls = PendingOf(batch)
          /\ drain_events = EventsOf(batch, 1)
          /\ tool_calls = Finalize(PendingOf(batch))
    /\ idx = 1
    /\ arguments = Unbound
    /\ result = <<>>
    /\ budget = 0
    /\ calls = 1
    /\ CaptureIdle
    /\ UiFresh

\* handle_tool_calls on the batch, its return, and the interact loop's step
\* that follows it.
NextDispatch ==
    \/ \E crm_ok \in BOOLEAN : DispatchCall(crm_ok) /\ UNCHANGED uiVars
    \/ DispatchReturn /\ UNCHANGED uiVars
    \/ InteractLoop /\ UNCHANGED uiVars

SpecDispatch == InitDispatch /\ [][NextDispatch]_vars

\* The session inside a text-mode interact call whose first turn was one
\* find_account_by_name call that succeeded: the call's output is in the
\* conversation, handle_tool_calls has requested a response and returned,
\* the interact loop has requested another and the second drain starts. Two
\* requested responses are not read yet.
FollowUpBatch == << <<"find_account_by_name", <<T_OPEN, T_GMBH>> >> >>

InitFollowUp ==
    /\ tool_callback = FALSE
    /\ conversation =
          << Message("system", SystemPrompt),
             Message("user", [type |-> "input_text", data |-> "hello"]),
             FunctionCallOutput("c1",
                 JsonDumps(find_account_by_name(<<"igus", "GmbH">>))) >>
    /\ gen_triggers = 3
    /\ dones_consumed = 1
    /\ crm_calls = InvokeTool("find_account_by_name",
                              JsonLoads(<<T_OPEN, T_GMBH>>), TRUE).crm
    /\ callback_calls = <<>>
    /\ played = <<>>
    /\ recorded = 0
    /\ pc = "drain"
    /\ outcome = NoOutcome
    /\ content_sent = <<"text", "hello">>
    /\ audio_chunks = <<>>
    /\ final_text = Unbound
    /\ pending_tool_calls = <<>>
    /\ drain_events = <<>>
    /\ tool_calls = Finalize(PendingOf(FollowUpBatch))
    /\ idx = 2
    /\ arguments = JsonLoads(<<T_OPEN, T_GMBH>>)
    /\ result = TOOL_CALLED
    /\ budget = MaxFollowUpEvents
    /\ calls = 1
    /\ CaptureIdle
    /\ UiFresh

SpecFollowUp == InitFollowUp /\ [][NextStream]_vars


\* ------------------------------------------------------ record_until_silence
\* silence_limit = int(self.silence_timeout * 1000 / self.frame_duration)
silence_limit == silence_timeout_ms \div frame_duration

sessionVars == <<tool_callback, connVars, sideVars, pc, outcome, content_sent, streamVars,
                 dispatchVars, result, budget, calls>>

\* ReadFrame that starts counting silence at the first speech frame.
ReadFrameWaitsForSpeech(is_speech) ==
    /\ cap_pc = "recording"
    /\ is_speech => speech_seen < MaxSpeechFrames
    /\ frames_read' = frames_read + 1
    /\ audio_frames' = Append(audio_frames, frames_read + 1)
    /\ speech_seen' = IF is_speech THEN speech_seen + 1 ELSE speech_seen
    /\ lead_speech' = IF is_speech /\ speech_seen = frames_read
                      THEN lead_speech + 1
                      ELSE lead_speech
    /\ last_speech_at' = IF is_speech THEN frames_read + 1 ELSE last_speech_at
    /\ silence_counter' = IF is_speech \/ speech_seen = 0 THEN 0 ELSE silence_counter + 1
    /\ cap_pc' = IF ~is_speech /\ speech_seen > 0 /\ silence_counter + 1 >= silence_limit
                 THEN "returned"
                 ELSE "recording"
    /\ UNCHANGED sessionVars

\* ReadFrame with the break test written `>` instead of `>=`.
ReadFrameStopsLate(is_speech) ==
    /\ cap_pc = "recording"
    /\ is_speech => speech_seen < MaxSpeechFrames
    /\ frames_read' = frames_read + 1
    /\ audio_frames' = Append(audio_frames, frames_read + 1)
    /\ speech_seen' = IF is_speech THEN speech_seen + 1 ELSE speech_seen
    /\ lead_speech' = IF is_speech /\ speech_seen = frames_read
                      THEN lead_speech + 1
                      ELSE lead_speech
    /\ last_speech_at' = IF is_speech THEN frames_read + 1 ELSE last_speech_at
    /\ silence_counter' = IF is_speech THEN 0 ELSE silence_counter + 1
    /\ cap_pc' = IF ~is_speech /\ silence_counter + 1 > silence_limit
                 THEN "returned"
                 ELSE "recording"
    /\ UNCHANGED sessionVars

\* One iteration of the while loop: read the next frame of the stream (a
\* frame is identified by its position in the stream), append it, classify
\* it, reset or advance the silence counter, and break when the counter has
\* reached silence_limit. The source emits at most MaxSpeechFrames speech
\* frames.
ReadFrame(is_speech) ==
    /\ cap_pc = "recording"
    /\ is_speech => speech_seen < MaxSpeechFrames
    /\ frames_read' = frames_read + 1
    /\ audio_frames' = Append(audio_frames, frames_read + 1)
    /\ speech_seen' = IF is_speech THEN speech_seen + 1 ELSE speech_seen
    /\ lead_speech' = IF is_speech /\ speech_seen = frames_read
                      THEN lead_speech + 1
                      ELSE lead_speech
    /\ last_speech_at' = IF is_speech THEN frames_read + 1 ELSE last_speech_at
    /\ silence_counter' = IF is_speech THEN 0 ELSE silence_counter + 1
    /\ cap_pc' = IF ~is_speech /\ silence_counter + 1 >= silence_limit
                 THEN "returned"
                 ELSE "recording"
    /\ UNCHANGED sessionVars

\* record_until_silence has opened the input stream and read nothing yet.
InitCapture ==
    /\ tool_callback = FALSE
    /\ conversation = << Message("system", SystemPrompt) >>
    /\ gen_triggers = 0
    /\ dones_consumed = 0
    /\ crm_calls = <<>>
    /\ callback_calls = <<>>
    /\ played = <<>>
    /\ recorded = 1
    /\ pc = "idle"
    /\ outcome = NoOutcome
    /\ content_sent = <<"voice", "ui_clip">>
    /\ audio_chunks = <<>>
    /\ final_text = Unbound
    /\ pending_tool_calls = <<>>
    /\ drain_events = <<>>
    /\ tool_calls = <<>>
    /\ idx = 1
    /\ arguments = Unbound
    /\ result = <<>>
    /\ budget = 0
    /\ calls = 1
    /\ frames_read = 0
    /\ audio_frames = <<>>
    /\ silence_counter = 0
    /\ speech_seen = 0
    /\ lead_speech = 0
    /\ last_speech_at = 0
    /\ cap_pc = "recording"
    /\ UiFresh

NextCapture == \E is_speech \in BOOLEAN : ReadFrame(is_speech) /\ UNCHANGED uiVars

SpecCapture == InitCapture /\ [][NextCapture]_vars


\* ------------------------------------------------------------- app.py: main
\* Events other than response.done that the model emits in SpecUI.
MaxUiEvents == 2

\* What the script passes to interact: the typed prompt in text mode, its own
\* recording in voice mode.
UiInputs == { <<"text", "hello">>, <<"voice", "ui_clip">> }

\* An entry of st.session_state.state.messages.
ChatMessage(role, content) == [role |-> role, content |-> content]

\* The sidebar button "Clear Conversation": messages = [] and a rerun.
UiClear(s) ==
    /\ ui[s] = "idle"
    /\ messages' = [messages EXCEPT ![s] = <<>>]
    /\ UNCHANGED <<ui, ui_args, owner, suspended>>
    /\ UNCHANGED <<tool_callback, connVars, sideVars, pc, outcome, content_sent, streamVars,
                   dispatchVars, result, budget, calls, captureVars>>

\* A script run that has input: the chat input in text mode, the send button
\* in voice mode. The user's message is appended and the script goes on to
\* call loop.run_until_complete(assistant.interact(mode, content)).
UiSubmit(s, inp) ==
    /\ ui[s] = "idle"
    /\ calls + Cardinality({t \in Sessions : ui[t] = "calling"}) < MaxInteracts
    /\ messages' =
          [messages EXCEPT
              ![s] = Append(@, ChatMessage("user",
                                  IF inp[1] = "text"
                                  THEN <<inp[2]>>
                                  ELSE <<"Voice message">>))]
    /\ ui' = [ui EXCEPT ![s] = "calling"]
    /\ ui_args' = [ui_args EXCEPT ![s] = inp]
    /\ UNCHANGED <<owner, suspended>>
    /\ UNCHANGED <<tool_callback, connVars, sideVars, pc, outcome, content_sent, streamVars,
                   dispatchVars, result, budget, calls, captureVars>>

\* run_until_complete starts the interact coroutine of the session's script
\* and runs it to its first wait.
UiRunInteract(s, rec_ok) ==
    /\ ui[s] = "calling"
    /\ owner = "none"
    /\ Interact(ui_args[s][1], ui_args[s][2], rec_ok)
    /\ owner' = s
    /\ ui' = [ui EXCEPT ![s] = "waiting"]
    /\ UNCHANGED <<messages, ui_args, suspended>>

\* run_until_complete returns or raises in the session's script: the returned
\* text is appended as the assistant's message, an exception is shown with
\* st.error and nothing is appended; the script ends with a rerun.
UiReceive(s) ==
    /\ ui[s] = "waiting"
    /\ owner = s
    /\ pc = "idle"
    /\ outcome # NoOutcome
    /\ messages' =
          IF outcome.kind = "returned"
          THEN [messages EXCEPT ![s] = Append(@, ChatMessage("assistant", outcome.value))]
          ELSE messages
    /\ ui' = [ui EXCEPT ![s] = "idle"]
    /\ owner' = "none"
    /\ UNCHANGED <<ui_args, suspended>>
    /\ UNCHANGED <<tool_callback, connVars, sideVars, pc, outcome, content_sent, streamVars,
                   dispatchVars, result, budget, calls, captureVars>>

\* The locals of the interact call that runs.
Running ==
    [owner |-> owner, pc |-> pc, outcome |-> outcome, content_sent |-> content_sent,
     audio_chunks |-> audio_chunks, final_text |-> final_text,
     pending_tool_calls |-> pending_tool_calls, drain_events |-> drain_events,
     tool_calls |-> tool_calls, idx |-> idx, arguments |-> arguments, result |-> result]

\* The event loop, which get_assistant caches for every UI session together
\* with the one assistant, leaves the interact call that waits for the next
\* event and runs another: the coroutine of a script that has just called
\* run_until_complete (the loop is re-entrant, nest_asyncio.apply()), or the
\* one parked before. Nothing in app.py or in interact waits for the first
\* to end.
Switch ==
    /\ owner = "none" \/ pc = "drain"
    /\ \/ suspended # NoCoroutine
       \/ owner # "none" /\ \E s \in Sessions : ui[s] = "calling"
    /\ suspended' = IF owner = "none" THEN NoCoroutine ELSE Running
    /\ owner' = suspended.owner
    /\ pc' = suspended.pc
    /\ outcome' = suspended.outcome
    /\ content_sent' = suspended.content_sent
    /\ audio_chunks' = suspended.audio_chunks
    /\ final_text' = suspended.final_text
    /\ pending_tool_calls' = suspended.pending_tool_calls
    /\ drain_events' = suspended.drain_events
    /\ tool_calls' = suspended.tool_calls
    /\ idx' = suspended.idx
    /\ arguments' = suspended.arguments
    /\ result' = suspended.result
    /\ UNCHANGED <<messages, ui, ui_args>>
    /\ UNCHANGED <<tool_callback, connVars, sideVars, budget, calls, captureVars>>

InitUI ==
    /\ tool_callback = FALSE
    /\ conversation = << Message("system", SystemPrompt) >>
    /\ gen_triggers = 0
    /\ dones_consumed = 0
    /\ crm_calls = <<>>
    /\ callback_calls = <<>>
    /\ played = <<>>
    /\ recorded = 0
    /\ pc = "idle"
    /\ outcome = NoOutcome
    /\ content_sent = <<>>
    /\ audio_chunks = <<>>
    /\ final_text = Unbound
    /\ pending_tool_calls = <<>>
    /\ drain_events = <<>>
    /\ tool_calls = <<>>
    /\ idx = 1
    /\ arguments = Unbound
    /\ result = <<>>
    /\ budget = MaxUiEvents
    /\ calls = 0
    /\ CaptureIdle
    /\ UiFresh

NextUI ==
    \/ \E s \in Sessions : UiClear(s)
    \/ \E s \in Sessions, inp \in UiInputs : UiSubmit(s, inp)
    \/ \E s \in Sessions, rec_ok \in BOOLEAN : UiRunInteract(s, rec_ok)
    \/ \E s \in Sessions : UiReceive(s)
    \/ Switch
    \/ InteractLoop /\ UNCHANGED uiVars
    \/ \E d \in AudioDeltas : AudioDelta(d) /\ UNCHANGED uiVars
    \/ \E t \in Transcripts : TranscriptDone(t) /\ UNCHANGED uiVars
    \/ \E c \in CallIds, d \in ArgDeltas : FunctionCallArgumentsDelta(c, d) /\ UNCHANGED uiVars
    \/ \E c \in CallIds, n \in StreamNames : FunctionCallArgumentsDone(c, n) /\ UNCHANGED uiVars
    \/ ResponseDone /\ UNCHANGED uiVars
    \/ \E crm_ok \in BOOLEAN : DispatchCall(crm_ok) /\ UNCHANGED uiVars
    \/ DispatchReturn /\ UNCHANGED uiVars

SpecUI == InitUI /\ [][NextUI]_vars


\* =================================================================== claims
IsOutput(item) == item.type = "function_call_output"

\* ---- C1
\* What the validation flags are at the i-th CRM invocation: the account is
\* verified when the latest find_account_by_name lookup before it returned
\* single_found, the contact when the latest list_contacts_for_account lookup
\* before it returned a contact. Both are false while no lookup was made.
LookupsBefore(i, name) == {j \in 1..(i - 1) : crm_calls[j].name = name}

LatestBefore(i, name) ==
    CHOOSE j \in LookupsBefore(i, name) : \A k \in LookupsBefore(i, name) : k <= j

AccountVerifiedAt(i) ==
    /\ LookupsBefore(i, "find_account_by_name") # {}
    /\ crm_calls[LatestBefore(i, "find_account_by_name")].result.status = "single_found"

ContactVerifiedAt(i) ==
    /\ LookupsBefore(i, "list_contacts_for_account") # {}
    /\ crm_calls[LatestBefore(i, "list_contacts_for_account")].result.data # <<>>

\* C1: the CRM upload operation is invoked only when account_verified and
\* contact_verified are both true; an upload call dispatched while a flag is
\* false never reaches the CRM.
C1_UploadOnlyWhenVerified ==
    \A i \in 1..Len(crm_calls) :
        crm_calls[i].name = "upload_visit_report"
            => AccountVerifiedAt(i) /\ ContactVerifiedAt(i)

\* ---- C2
\* C2: once the drain has read a response.done it has returned one result for
\* the turn: it neither fails nor keeps reading events.
C2_DrainReturnsOneResult ==
    /\ outcome # Raised("UnboundLocalError: final_text")
    /\ pc = "drain" => \A i \in 1..Len(drain_events) : drain_events[i].type # "response.done"

C4_TwoTriggersOneCrmCall ==
    ( /\ outcome.kind = "returned"
      /\ calls = 1
      /\ dones_consumed = 2
      /\ Len(tool_calls) = 1
      /\ tool_calls[1].name = "find_account_by_name"
      /\ JsonLoads(tool_calls[1].arguments).kind = "account_name" )
        => (gen_triggers = 2 /\ Len(crm_calls) = 1)

\* ---- C5
OutputsFor(call_id) ==
    {k \in 1..Len(conversation) :
        IsOutput(conversation[k]) /\ conversation[k].call_id = call_id}

\* C5: every call of the batch that handle_tool_calls has gone through has
\* exactly one function_call_output item with its call_id in the conversation,
\* whether the call succeeded or failed.
C5_OneOutputPerCall ==
    \A i \in 1..Len(tool_calls) :
        i < idx => Cardinality(OutputsFor(tool_calls[i].call_id)) = 1

\* ---- C6
\* C6: a call whose dispatch raises does not make handle_tool_calls raise, and
\* the calls after it are still dispatched: handle_tool_calls is left only
\* with the whole batch gone through, observer installed or not.
C6_DispatchErrorsContained ==
    /\ outcome.kind # "raised"
    /\ pc # "dispatch" => idx > Len(tool_calls)

\* ---- C7
IsFragmentOf(ev, call_id) ==
    ev.type = "response.function_call_arguments.delta" /\ ev.call_id = call_id

\* The fragments the drain has read for call_id, in arrival order, joined.
OwnFragments(call_id) ==
    LET own == SelectSeq(drain_events, LAMBDA ev : IsFragmentOf(ev, call_id))
    IN  Flatten([i \in 1..Len(own) |-> own[i].delta])

\* C7: each finalized tool call's argument text is the concatenation of the
\* fragments of its own call_id in arrival order, however the fragments of
\* different call_ids interleave.
C7_FragmentsPerCallId ==
    pc = "dispatch" =>
        \A i \in 1..Len(tool_calls) :
            tool_calls[i].arguments = OwnFragments(tool_calls[i].call_id)

\* A finalized call two of whose fragments have a fragment of another call_id
\* between them.
C7_Witness ==
    /\ pc = "dispatch"
    /\ \E n \in 1..Len(tool_calls) :
         \E i, j, k \in 1..Len(drain_events) :
            /\ i < j /\ j < k
            /\ IsFragmentOf(drain_events[i], tool_calls[n].call_id)
            /\ IsFragmentOf(drain_events[k], tool_calls[n].call_id)
            /\ drain_events[j].type = "response.function_call_arguments.delta"
            /\ drain_events[j].call_id # tool_calls[n].call_id

\* ---- C9
\* C9: an interact call with a mode other than text or voice raises ValueError
\* and leaves the connection untouched: no item created, no response
\* requested, no event read, nothing recorded.
C9_InvalidModeFailsFast ==
    [][ (calls' = calls + 1 /\ content_sent'[1] \notin {"text", "voice"})
            => /\ outcome' = Raised("ValueError")
               /\ pc' = "idle"
               /\ UNCHANGED <<connVars, streamVars, sideVars>> ]_vars

C9_Witness ==
    /\ outcome = Raised("ValueError")
    /\ content_sent = <<"bogus_mode", "x">>

\* ---- C10
\* C10: silence_limit is 50; recording goes on while the run of trailing
\* silence frames is shorter than silence_limit and stops with the frame that
\* makes it silence_limit long; the clip is the frames read, in order, that
\* frame included; speech frames followed by silence alone give the speech
\* frames plus silence_limit silence frames.
C10_StopsAtSilenceLimit ==
    /\ silence_limit = 50
    /\ audio_frames = [i \in 1..frames_read |-> i]
    /\ cap_pc = "recording" => frames_read - last_speech_at < silence_limit
    /\ cap_pc = "returned" => frames_read - last_speech_at = silence_limit
    /\ (cap_pc = "returned" /\ speech_seen = lead_speech)
          => Len(audio_frames) = lead_speech + silence_limit

C10_Witness ==
    /\ cap_pc = "returned"
    /\ lead_speech = 5
    /\ speech_seen = 5
    /\ Len(audio_frames) = 55

\* ---- C11
IsToolEvent(ev) ==
    ev.type \in {"response.function_call_arguments.delta",
                 "response.function_call_arguments.done"}

TranscriptsIn(events) ==
    SelectSeq(events, LAMBDA ev : ev.type = "response.audio_transcript.done")

\* A turn without tool calls that carries one transcript.
PlainTurn(events) ==
    /\ \A i \in 1..Len(events) : ~IsToolEvent(events[i])
    /\ Len(TranscriptsIn(events)) = 1

\* C11: when the first turn of a text-mode interact call has no tool calls
\* and one transcript, interact returns the transcript trimmed of leading and
\* trailing whitespace, having requested one response and invoked no CRM
\* operation.
C11_PlainTextTurnReturnsTranscript ==
    [][ ( /\ pc = "loop"
          /\ calls = 1
          /\ dones_consumed = 1
          /\ content_sent[1] = "text"
          /\ PlainTurn(drain_events) )
            => /\ outcome' = Returned(Strip(TranscriptsIn(drain_events)[1].delta))
               /\ gen_triggers = 1
               /\ gen_triggers' = 1
               /\ crm_calls' = <<>> ]_vars

\* ---- C13
\* C13: when the model ends every requested response with response.done and
\* turns without tool calls eventually come, the interact call eventually
\* returns; and once a turn without tool calls is drained, interact returns
\* it, with no further request for a response.
C13_InteractReturnsAtFirstFinalTurn ==
    /\ <>(outcome.kind = "returned")
    /\ [][ ( /\ pc = "loop"
             /\ \A i \in 1..Len(drain_events) : ~IsToolEvent(drain_events[i]) )
               => /\ outcome'.kind = "returned"
                  /\ gen_triggers' = gen_triggers ]_vars

\* ---- C14
IsDone(ev) == ev.type = "response.done"

\* The drain has just read the response.done of the first turn it reads.
FirstTurnComplete ==
    /\ drain_events # <<>>
    /\ IsDone(drain_events[Len(drain_events)])
    /\ \A i \in 1..(Len(drain_events) - 1) : ~IsDone(drain_events[i])

HasFragment(events) ==
    \E i \in 1..Len(events) : events[i].type = "response.function_call_arguments.delta"

\* C14: a turn that carries both argument fragments and a transcript ends with
\* the drain returning the tool batch ("tool_called" after the dispatch), and
\* the transcript is not returned by the drain nor by interact.
C14_ToolDispatchTakesPriority ==
    ( /\ FirstTurnComplete
      /\ HasFragment(drain_events)
      /\ TranscriptsIn(drain_events) # <<>> )
        => /\ pc \in {"dispatch", "loop"}
           /\ pc = "loop" => result = TOOL_CALLED
           /\ outcome = NoOutcome

\* ---- C15
Resolved(pending) == {i \in 1..Len(pending) : pending[i].name # "None"}

\* C15: when response.done ends a turn that carried argument fragments, the
\* drain returns a tool batch: the batch holds every call whose name was
\* resolved, in order, and no call whose name was not; it is empty when no
\* name was resolved; the drain neither fails nor goes on reading.
C15_UnresolvedCallsDropped ==
    ( /\ FirstTurnComplete
      /\ HasFragment(drain_events) )
        => /\ pc \in {"dispatch", "loop"}
           /\ outcome.kind # "raised"
           /\ Len(tool_calls) = Cardinality(Resolved(pending_tool_calls))
           /\ \A i \in Resolved(pending_tool_calls) :
                 \E k \in 1..Len(tool_calls) :
                    /\ tool_calls[k].call_id = pending_tool_calls[i].call_id
                    /\ tool_calls[k].name = pending_tool_calls[i].name

\* ---- C16
\* Position of the last response.done the drain read before the one that
\* ended the current turn, 0 if there is none.
PreviousDone ==
    LET ds == {k \in 1..(Len(drain_events) - 1) : IsDone(drain_events[k])}
    IN  IF ds = {} THEN 0 ELSE CHOOSE k \in ds : \A j \in ds : j <= k

\* The events of the turn that produced the batch.
CurrentTurn == SubSeq(drain_events, PreviousDone + 1, Len(drain_events))

\* C16: a tool call produced at a response.done is made of the fragments and
\* the name received in that turn only: nothing read before an earlier
\* response.done is part of it.
C16_AccumulatorsDoNotSurviveTurn ==
    pc = "dispatch" =>
        \A n \in 1..Len(tool_calls) :
            LET own == SelectSeq(CurrentTurn,
                                 LAMBDA ev : IsFragmentOf(ev, tool_calls[n].call_id))
            IN  /\ tool_calls[n].arguments = Flatten([i \in 1..Len(own) |-> own[i].delta])
                /\ \E i \in 1..Len(CurrentTurn) :
                      /\ CurrentTurn[i].type = "response.function_call_arguments.done"
                      /\ CurrentTurn[i].call_id = tool_calls[n].call_id
                      /\ CurrentTurn[i].name = tool_calls[n].name

\* ---- C17
\* What a notification may carry as the arguments of a call: the arguments
\* parsed from the call's own text, or, when the text does not parse, what
\* json.loads made of it or the text itself.
OwnArguments(call) ==
    { JsonLoads(call.arguments), [kind |-> "raw", value |-> call.arguments] }

\* C17: with an observer installed, every call handle_tool_calls has gone
\* through was notified once, in order; the notification of a failed call
\* carries the error payload with that call's own name and arguments.
C17_ObserverNotifiedOfOwnCall ==
    tool_callback =>
        /\ Len(callback_calls) = idx - 1
        /\ \A i \in 1..Len(callback_calls) :
              callback_calls[i].payload.status = "error"
                 => /\ callback_calls[i].name = tool_calls[i].name
                    /\ callback_calls[i].arguments \in OwnArguments(tool_calls[i])

\* ---- C18
\* C18: a voice-mode interact call either goes through or, when the capture
\* fails, ends with the device error and leaves the conversation, the
\* requests, the events read and the drain untouched; a text-mode interact
\* call made after such a failure does what it does on a fresh turn: one user
\* message with the text appended, one response requested, a fresh drain.
C18_CaptureFailureLeavesSessionUsable ==
    [][ /\ (calls' = calls + 1 /\ content_sent'[1] = "voice")
            => \/ /\ outcome' = Raised("DeviceError")
                  /\ pc' = "idle"
                  /\ UNCHANGED <<connVars, streamVars, crm_calls>>
               \/ /\ outcome' = NoOutcome
                  /\ Len(conversation') = Len(conversation) + 1
        /\ ( /\ outcome = Raised("DeviceError")
             /\ calls' = calls + 1
             /\ content_sent'[1] = "text" )
            => /\ conversation' =
                    Append(conversation,
                           Message("user",
                                   [type |-> "input_text", data |-> content_sent'[2]]))
               /\ gen_triggers' = gen_triggers + 1
               /\ dones_consumed' = dones_consumed
               /\ outcome' = NoOutcome
               /\ pc' = "drain"
               /\ audio_chunks' = <<>>
               /\ pending_tool_calls' = <<>>
               /\ drain_events' = <<>> ]_vars

\* A text-mode call drains its first turn after a voice-mode call failed in
\* the capture: the text message is the only user message of the session.
C18_Witness ==
    /\ calls = 2
    /\ recorded = 1
    /\ content_sent[1] = "text"
    /\ pc = "drain"
    /\ gen_triggers = 1
    /\ conversation = << Message("system", SystemPrompt),
                         Message("user", [type |-> "input_text", data |-> "hello"]) >>

\* ---- C20
\* C20: the CRM is invoked only by the dispatch of the call the for loop
\* stands at, once, after which the loop has left that call behind; inside a
\* batch the loop only moves forward; and a batch comes only from a drain,
\* made of tool calls the model emitted: nothing dispatches a call again.
C20_NoAutomaticRetries ==
    [][ /\ crm_calls' # crm_calls
            => /\ pc = "dispatch"
               /\ idx <= Len(tool_calls)
               /\ Len(crm_calls') = Len(crm_calls) + 1
               /\ SubSeq(crm_calls', 1, Len(crm_calls)) = crm_calls
               /\ crm_calls'[Len(crm_calls')].name = tool_calls[idx].name
               /\ idx' = idx + 1
        /\ (pc = "dispatch" /\ pc' = "dispatch")
            => (tool_calls' = tool_calls /\ idx' = idx + 1)
        /\ (tool_calls' # tool_calls \/ idx' < idx)
            => /\ pc = "drain"
               /\ pc' = "dispatch"
               /\ tool_calls' = Finalize(pending_tool_calls)
               /\ idx' = 1 ]_vars

\* An interact call returned after a turn whose one call failed in the CRM:
\* the CRM was invoked once.
C20_Witness ==
    /\ outcome.kind = "returned"
    /\ dones_consumed = 2
    /\ Len(tool_calls) = 1
    /\ Len(crm_calls) = 1
    /\ crm_calls[1].result.status = "raised"
    /\ gen_triggers = 2

\* ---- C12
InProgress(c) == c.owner # "none" /\ c.outcome = NoOutcome /\ c.pc # "idle"

\* C12: on the one connection no interact call creates a conversation item,
\* requests a response or reads an event while another interact call has
\* started and has neither returned nor raised, also when the calls come from
\* different UI sessions that got the same assistant and loop from
\* get_assistant().
C12_OneInteractAtATime ==
    [][ (connVars' # connVars \/ budget' # budget) => ~InProgress(suspended) ]_vars

\* ---- C19
\* C19: every step of the UI leaves the messages of a UI session as they are
\* or appends one entry at the end; no entry is removed, moved or changed.
C19_MessagesAppendOnly ==
    [][ \A s \in Sessions :
           \/ messages'[s] = messages[s]
           \/ /\ Len(messages'[s]) = Len(messages[s]) + 1
              /\ SubSeq(messages'[s], 1, Len(messages[s])) = messages[s] ]_vars

\* ---- C21
\* C21: when interact returns, every response it requested has been read to
\* its response.done: as many response.create calls were made on the
\* connection as response.done events were read from it.
C21_ReturnsWithNothingOutstanding ==
    outcome.kind = "returned" => gen_triggers = dones_consumed

\* ---- C22
\* C22: a drained turn without tool calls whose transcript, trimmed, is the
\* text "tool_called" is returned by interact as its result, and no response
\* is requested after it.
C22_SentinelTextIsReturned ==
    [][ ( /\ pc = "loop"
          /\ PlainTurn(drain_events)
          /\ Strip(TranscriptsIn(drain_events)[1].delta) = <<"tool_called">> )
            => /\ outcome' = Returned(<<"tool_called">>)
               /\ pc' = "idle"
               /\ gen_triggers' = gen_triggers ]_vars

\* ---- C23
\* C23: a call to a tool of the schema sent to the model never fails for want
\* of a handler, and every call that reaches a handler is a call to a tool of
\* the schema: the schema and TOOL_MAP name the same tools.
C23_SchemaMatchesHandlers ==
    /\ \A i \in 1..Len(callback_calls) :
          callback_calls[i].name \in TOOLS
             => callback_calls[i].payload # ErrorPayload("KeyError")
    /\ \A i \in 1..Len(crm_calls) : crm_calls[i].name \in TOOLS

\* ---- C24
\* C24: the drain of a turn with no argument fragment and no transcript does
\* not fail: it returns a final utterance whose text is empty, and the audio
\* of the turn, if there is any, is what is played.
C24_EmptyTurnReturnsEmptyText ==
    ( /\ FirstTurnComplete
      /\ ~HasFragment(drain_events)
      /\ TranscriptsIn(drain_events) = <<>> )
        => /\ outcome.kind # "raised"
           /\ pc = "loop" \/ outcome = Returned(<<>>)
           /\ result = <<>>

\* ---- C25
\* Position in the drain's events of the first fragment of call_id.
FirstSeen(call_id) ==
    CHOOSE i \in 1..Len(drain_events) :
        /\ IsFragmentOf(drain_events[i], call_id)
        /\ \A j \in 1..(i - 1) : ~IsFragmentOf(drain_events[j], call_id)

\* C25: the batch lists the calls in the order in which their call_ids first
\* appeared in the event stream; the dispatcher takes them in that order, one
\* per step; the step of a call is the only one that invokes that call's
\* handler and appends that call's output, so the output is in the
\* conversation before the next call's handler is invoked.
C25_DispatchInArrivalOrder ==
    /\ [](pc = "dispatch" =>
             \A i, j \in 1..Len(tool_calls) :
                 i < j => FirstSeen(tool_calls[i].call_id) < FirstSeen(tool_calls[j].call_id))
    /\ [][ /\ (pc = "dispatch" /\ pc' = "dispatch") => idx' = idx + 1
           /\ crm_calls' # crm_calls
                => /\ pc = "dispatch"
                   /\ crm_calls' = Append(crm_calls, crm_calls'[Len(crm_calls')])
                   /\ crm_calls'[Len(crm_calls')].name = tool_calls[idx].name
                   /\ crm_calls'[Len(crm_calls')].arguments = JsonLoads(tool_calls[idx].arguments)
           /\ conversation' # conversation
                => /\ pc = "dispatch"
                   /\ crm_calls' # crm_calls
                   /\ conversation' =
                        Append(conversation,
                               FunctionCallOutput(tool_calls[idx].call_id,
                                   JsonDumps(crm_calls'[Len(crm_calls')].result))) ]_vars

\* Two calls were dispatched, both with an output; the one dispatched first
\* is c2, whose fragment came first, although its name was resolved last.
C25_Witness ==
    /\ pc = "dispatch"
    /\ idx = 3
    /\ Len(tool_calls) = 2
    /\ tool_calls[1].call_id = "c2"
    /\ drain_events[3].type = "response.function_call_arguments.done"
    /\ drain_events[3].call_id = "c1"
    /\ Len(conversation) = 4
    /\ conversation[3].call_id = "c2"
    /\ conversation[4].call_id = "c1"

\* ---- C26
\* The events of the last turn of a sequence that ends with response.done.
LastTurn(events) ==
    LET ds == {k \in 1..(Len(events) - 1) : IsDone(events[k])}
        prev == IF ds = {} THEN 0 ELSE CHOOSE k \in ds : \A j \in ds : j <= k
    IN  SubSeq(events, prev + 1, Len(events))

AudioIn(events) ==
    LET a == SelectSeq(events, LAMBDA ev : ev.type = "response.audio.delta")
    IN  [i \in 1..Len(a) |-> a[i].delta[1]]

\* C26: every playback is the playback of the turn that interact returns as
\* the final utterance, so there is at most one per interact call; what is
\* played is the audio of that turn alone, in arrival order; the audio of a
\* turn that ends as a tool batch is never played.
C26_PlaybackOnlyForFinalTurn ==
    [][ played' # played
          => /\ result' # TOOL_CALLED
             /\ pc' = "loop"
             /\ ~HasFragment(LastTurn(drain_events'))
             /\ played' = Append(played, AudioIn(LastTurn(drain_events'))) ]_vars

\* ---- C27
\* C27: when every frame read so far is silence, capture is still recording
\* before silence_limit frames are read and has returned, with exactly those
\* silence_limit frames as the clip, once they are read: no speech frame is
\* waited for. Whatever the source, the frame that completes a run of
\* silence_limit consecutive silence frames ends the capture, so a capture
\* that goes on for ever has no such run.
C27_SilenceOnlySourceTerminates ==
    /\ []((speech_seen = 0 /\ cap_pc = "recording") => frames_read < silence_limit)
    /\ []((speech_seen = 0 /\ cap_pc = "returned")
             => /\ frames_read = silence_limit
                /\ audio_frames = [i \in 1..silence_limit |-> i])
    /\ [](silence_counter = frames_read - last_speech_at)
    /\ [][ silence_counter' >= silence_limit => cap_pc' = "returned" ]_vars

\* A capture of silence alone has returned.
C27_Witness ==
    /\ cap_pc = "returned"
    /\ speech_seen = 0
    /\ last_speech_at = 0
    /\ Len(audio_frames) = silence_limit

\* ---- C28
\* C28: a voice-mode interact call that sends a user message has made one
\* recording during the call, and the message it appends carries that
\* recording as input_audio, whatever content the caller passed; the audio
\* passed by the caller is in no item of the conversation.
C28_VoiceModeSendsOwnRecording ==
    /\ [](\A i \in 1..Len(conversation) :
             conversation[i].type = "message" => conversation[i].payload.data # "ui_clip")
    /\ [][ ( /\ pc = "idle"
             /\ calls' = calls + 1
             /\ content_sent'[1] = "voice" )
               => /\ recorded' = recorded + 1
                  /\ conversation' # conversation
                       => conversation' =
                            Append(conversation,
                                   Message("user", [type |-> "input_audio",
                                                    data |-> "recorded_clip"])) ]_vars

\* The caller passed audio to a voice-mode call, and the user message of the
\* call carries the recording made by the call.
C28_Witness ==
    /\ content_sent = <<"voice", "ui_clip">>
    /\ recorded = 1
    /\ pc = "drain"
    /\ conversation[Len(conversation)] =
          Message("user", [type |-> "input_audio", data |-> "recorded_clip"])

====
